---- MODULE Spec2Model ----
(***************************************************************************)
(* Model of crates/dax-tui/src/main.rs: the line reader thread, the mpsc   *)
(* channel, the serde decoder, the view-model reducer (the match inside    *)
(* the drain loop) and the key handler of the main loop.                   *)
(*                                                                         *)
(* Text that the program builds character by character (input,            *)
(* current_stream, message content) is a sequence of characters; opaque    *)
(* strings (role, status, stream_state, ids, names) are TLA+ strings.      *)
(* A JSON object is a function from its field names to their values.       *)
(* Message.timestamp is the wall clock and is left out.                    *)
(***************************************************************************)
EXTENDS Integers, Sequences, FiniteSets, TLC

VARIABLES state, rx, msg, pc, exitBy, reader, nread, stdout, term, ref, keyed,
          env, stderr, buffer, frame, track

vars == <<state, rx, msg, pc, exitBy, reader, nread, stdout, term, ref, keyed,
          env, stderr, buffer, frame, track>>

(***************************************************************************)
(* Bounds of the model.                                                    *)
(***************************************************************************)
MaxLines == 2
MaxInput == 1
MaxOut == 1
ToolMaxLines == 3
ScrollMaxLines == 13
IoMaxLines == 2
ReaderMaxLines == 3
TickMaxLines == 3
MaxQueue == 2

(***************************************************************************)
(* Option<T>.                                                              *)
(***************************************************************************)
None == [some |-> FALSE]
Some(v) == [some |-> TRUE, v |-> v]

UnwrapOr(o, d) == IF o.some THEN o.v ELSE d

SatSub(a, b) == IF a >= b THEN a - b ELSE 0

Min(a, b) == IF a <= b THEN a ELSE b

PageStep == 10

(***************************************************************************)
(* AppState::default() followed by stream_state = "done".                  *)
(***************************************************************************)
InitialAppState ==
    [ messages |-> <<>>,
      current_stream |-> <<>>,
      stream_state |-> "done",
      current_tool |-> None,
      tools |-> <<>>,
      context_files |-> <<>>,
      context_scope |-> <<>>,
      input |-> <<>>,
      chat_scroll |-> 0,
      provider |-> None,
      model |-> None ]

(***************************************************************************)
(* Lines of standard input.  A raw line is a sequence of tokens: a run of  *)
(* whitespace, a piece of text that is no JSON, or a JSON object.          *)
(***************************************************************************)
WS == [form |-> "ws"]
Garbage == [form |-> "text"]
J(obj) == [form |-> "json", obj |-> obj]

RECURSIVE TrimStart(_)
TrimStart(s) ==
    IF s = <<>> THEN <<>>
    ELSE IF Head(s).form = "ws" THEN TrimStart(Tail(s)) ELSE s

RECURSIVE TrimEnd(_)
TrimEnd(s) ==
    IF s = <<>> THEN <<>>
    ELSE IF s[Len(s)].form = "ws" THEN TrimEnd(SubSeq(s, 1, Len(s) - 1)) ELSE s

\* faulty variant: the whitespace at the end is kept
TrimLeadingOnly(s) == TrimStart(s)

\* str::trim
Trim(s) == TrimEnd(TrimStart(s))

Has(obj, f) == f \in DOMAIN obj

\* an Option<T> field of a struct variant: absent means None
Opt(obj, f) == IF Has(obj, f) THEN Some(obj[f]) ELSE None

Fail == [ok |-> FALSE]
Ok(m) == [ok |-> TRUE, msg |-> m]

(***************************************************************************)
(* serde: StreamEvent, adjacently tagged (tag "type", content "data").     *)
(* A unit variant needs no content; a struct variant needs it, with its    *)
(* non-Option fields present.                                              *)
(***************************************************************************)
DecodeEvent(e) ==
    IF ~Has(e, "type") THEN Fail
    ELSE IF e.type = "complete" THEN Ok([ev |-> "Complete"])
    ELSE IF e.type \notin {"meta", "state", "text_delta", "tool_call",
                           "tool_result", "gate", "error"} THEN Fail
    ELSE IF ~Has(e, "data") THEN Fail
    ELSE LET d == e.data IN
      CASE e.type = "meta" ->
             Ok([ev |-> "Meta", provider |-> Opt(d, "provider"), model |-> Opt(d, "model")])
        [] e.type = "state" ->
             IF Has(d, "state") THEN Ok([ev |-> "State", state |-> d.state]) ELSE Fail
        [] e.type = "text_delta" ->
             IF Has(d, "text") THEN Ok([ev |-> "TextDelta", text |-> d.text]) ELSE Fail
        [] e.type = "tool_call" ->
             Ok([ev |-> "ToolCall", name |-> Opt(d, "name"), id |-> Opt(d, "id")])
        [] e.type = "tool_result" ->
             Ok([ev |-> "ToolResult", tool_id |-> Opt(d, "tool_id"),
                 success |-> Opt(d, "success"), output |-> Opt(d, "output"),
                 elapsed_ms |-> Opt(d, "elapsed_ms")])
        [] e.type = "gate" -> Ok([ev |-> "Gate"])
        [] e.type = "error" -> Ok([ev |-> "Error", message |-> Opt(d, "message")])

(***************************************************************************)
(* serde: TuiMessage, internally tagged (tag "type").                      *)
(***************************************************************************)
DecodeObject(o) ==
    IF ~Has(o, "type") THEN Fail
    ELSE CASE o.type = "dispatch" ->
                IF ~Has(o, "event") THEN Fail
                ELSE LET e == DecodeEvent(o.event) IN
                     IF e.ok THEN Ok([kind |-> "Dispatch", event |-> e.msg]) ELSE Fail
           [] o.type = "addUserMessage" ->
                IF Has(o, "content")
                THEN Ok([kind |-> "AddUserMessage", content |-> o.content]) ELSE Fail
           [] o.type = "setContext" ->
                IF Has(o, "files") /\ Has(o, "scope")
                THEN Ok([kind |-> "SetContext", files |-> o.files, scope |-> o.scope])
                ELSE Fail
           [] o.type = "updateState" ->
                IF Has(o, "state")
                THEN Ok([kind |-> "UpdateState", state |-> o.state]) ELSE Fail
           [] o.type = "destroy" -> Ok([kind |-> "Destroy"])
           [] OTHER -> Fail

\* serde_json::from_str::<TuiMessage>(&msg): one JSON object and nothing else
Decode(line) ==
    IF Len(line) = 1 /\ line[1].form = "json" THEN DecodeObject(line[1].obj) ELSE Fail

(***************************************************************************)
(* The reducer: one operator per arm of the match in the drain loop.       *)
(***************************************************************************)
OnState(st, s) == [st EXCEPT !.stream_state = s]

OnTextDelta(st, text) == [st EXCEPT !.current_stream = @ \o text]

RunningTool(name, id) ==
    [name |-> name, id |-> id, status |-> "running", output |-> None, elapsed_ms |-> None]

OnToolCall(st, name, id) ==
    LET st1 == [st EXCEPT !.current_tool = name] IN
    IF name.some /\ id.some
    THEN [st1 EXCEPT !.tools = Append(@, RunningTool(name.v, id.v))]
    ELSE st1

\* faulty variant: the loop does not compare ids
FirstMatchAnyId(tools, id) == IF tools = <<>> THEN 0 ELSE 1

\* the index the for loop stops at (0: it runs to the end without a match)
FirstMatch(tools, id) ==
    LET S == {i \in 1..Len(tools) : tools[i].id = id} IN
    IF S = {} THEN 0 ELSE CHOOSE i \in S : \A j \in S : i <= j

\* faulty variant: the result's success flag is not read
OnToolResultAlwaysSuccess(st, tool_id, success, output, elapsed_ms) ==
    LET st1 == [st EXCEPT !.current_tool = None]
        i == FirstMatch(st.tools, UnwrapOr(tool_id, ""))
    IN IF i = 0 THEN st1
       ELSE [st1 EXCEPT !.tools[i].status = "success",
                        !.tools[i].output = output,
                        !.tools[i].elapsed_ms = elapsed_ms]

\* faulty variant: a message shares its ToolStates with later turns, so a result
\* resolves every entry of that id, in tools and in the transcript
OnToolResultShared(st, tool_id, success, output, elapsed_ms) ==
    LET k == UnwrapOr(tool_id, "")
        Patch(t) ==
            IF t.id = k
            THEN [t EXCEPT !.status = IF UnwrapOr(success, FALSE) THEN "success" ELSE "error",
                           !.output = output, !.elapsed_ms = elapsed_ms]
            ELSE t
        PatchAll(ts) == [j \in 1..Len(ts) |-> Patch(ts[j])]
    IN [st EXCEPT !.current_tool = None,
                  !.tools = PatchAll(st.tools),
                  !.messages = [i \in 1..Len(st.messages) |->
                                  [st.messages[i] EXCEPT !.tools = PatchAll(@)]]]

OnToolResult(st, tool_id, success, output, elapsed_ms) ==
    LET st1 == [st EXCEPT !.current_tool = None]
        i == FirstMatch(st.tools, UnwrapOr(tool_id, ""))
    IN IF i = 0 THEN st1
       ELSE [st1 EXCEPT !.tools[i].status =
                            IF UnwrapOr(success, FALSE) THEN "success" ELSE "error",
                        !.tools[i].output = output,
                        !.tools[i].elapsed_ms = elapsed_ms]

\* faulty variant: the finalized turn clears current_tool
OnCompleteClearsTool(st) ==
    IF st.current_stream # <<>> \/ st.tools # <<>>
    THEN LET msgs == Append(st.messages,
                            [role |-> "assistant", content |-> st.current_stream,
                             tools |-> st.tools])
         IN [st EXCEPT !.messages = msgs,
                       !.current_stream = <<>>,
                       !.tools = <<>>,
                       !.current_tool = None,
                       !.stream_state = "idle",
                       !.chat_scroll = SatSub(Len(msgs), 1)]
    ELSE st

\* faulty variant: tools.clear() is forgotten
OnCompleteKeepTools(st) ==
    IF st.current_stream # <<>> \/ st.tools # <<>>
    THEN LET msgs == Append(st.messages,
                            [role |-> "assistant", content |-> st.current_stream,
                             tools |-> st.tools])
         IN [st EXCEPT !.messages = msgs,
                       !.current_stream = <<>>,
                       !.stream_state = "idle",
                       !.chat_scroll = SatSub(Len(msgs), 1)]
    ELSE st

\* faulty variant: stream_state = "idle" is set outside the if
OnCompleteAlwaysIdle(st) ==
    IF st.current_stream # <<>> \/ st.tools # <<>>
    THEN LET msgs == Append(st.messages,
                            [role |-> "assistant", content |-> st.current_stream,
                             tools |-> st.tools])
         IN [st EXCEPT !.messages = msgs,
                       !.current_stream = <<>>,
                       !.tools = <<>>,
                       !.stream_state = "idle",
                       !.chat_scroll = SatSub(Len(msgs), 1)]
    ELSE [st EXCEPT !.stream_state = "idle"]

OnComplete(st) ==
    IF st.current_stream # <<>> \/ st.tools # <<>>
    THEN LET msgs == Append(st.messages,
                            [role |-> "assistant", content |-> st.current_stream,
                             tools |-> st.tools])
         IN [st EXCEPT !.messages = msgs,
                       !.current_stream = <<>>,
                       !.tools = <<>>,
                       !.stream_state = "idle",
                       !.chat_scroll = SatSub(Len(msgs), 1)]
    ELSE st

OnMeta(st, provider, model) == [st EXCEPT !.provider = provider, !.model = model]

OnError(st) == [st EXCEPT !.stream_state = "error"]

\* faulty variant: the gate arm leaves stream_state alone
OnGateKeepPhase(st) == st

OnGate(st) == [st EXCEPT !.stream_state = "waiting"]

OnDispatch(st, e) ==
    CASE e.ev = "State" -> OnState(st, e.state)
      [] e.ev = "TextDelta" -> OnTextDelta(st, e.text)
      [] e.ev = "ToolCall" -> OnToolCall(st, e.name, e.id)
      [] e.ev = "ToolResult" ->
           OnToolResult(st, e.tool_id, e.success, e.output, e.elapsed_ms)
      [] e.ev = "Complete" -> OnComplete(st)
      [] e.ev = "Meta" -> OnMeta(st, e.provider, e.model)
      [] e.ev = "Error" -> OnError(st)
      [] e.ev = "Gate" -> OnGate(st)

\* faulty variant: the view scrolls to the new message
OnAddUserMessageScrolls(st, content) ==
    [st EXCEPT !.messages = Append(@, [role |-> "user", content |-> content,
                                       tools |-> <<>>]),
               !.current_stream = <<>>,
               !.stream_state = "thinking",
               !.chat_scroll = Len(st.messages)]

\* faulty variant: current_stream.clear() is forgotten
OnAddUserMessageKeepStream(st, content) ==
    [st EXCEPT !.messages = Append(@, [role |-> "user", content |-> content,
                                       tools |-> <<>>]),
               !.stream_state = "thinking"]

OnAddUserMessage(st, content) ==
    [st EXCEPT !.messages = Append(@, [role |-> "user", content |-> content,
                                       tools |-> <<>>]),
               !.current_stream = <<>>,
               !.stream_state = "thinking"]

OnSetContext(st, files, scope) ==
    [st EXCEPT !.context_files = files, !.context_scope = scope]

OnUpdateState(st, s) == [st EXCEPT !.stream_state = s]

\* every arm of match tui_msg except Destroy, which returns from main
Reduce(st, m) ==
    CASE m.kind = "Dispatch" -> OnDispatch(st, m.event)
      [] m.kind = "AddUserMessage" -> OnAddUserMessage(st, m.content)
      [] m.kind = "SetContext" -> OnSetContext(st, m.files, m.scope)
      [] m.kind = "UpdateState" -> OnUpdateState(st, m.state)
      [] m.kind = "Destroy" -> st

\* faulty variant: a line that does not decode is surfaced as the error phase
ApplyLineSurfaceError(st, line) ==
    LET d == Decode(line) IN
    IF d.ok THEN Reduce(st, d.msg) ELSE [st EXCEPT !.stream_state = "error"]

\* the body of the while let loop for one received line, Destroy aside
ApplyLine(st, line) ==
    LET d == Decode(line) IN IF d.ok THEN Reduce(st, d.msg) ELSE st

IsDestroy(line) ==
    LET d == Decode(line) IN d.ok /\ d.msg.kind = "Destroy"

(***************************************************************************)
(* The terminal modes set up before the loop and restored by the teardown  *)
(* sequence (disable_raw_mode, LeaveAlternateScreen, DisableMouseCapture,  *)
(* show_cursor).                                                           *)
(***************************************************************************)
TermSetUp == [raw |-> TRUE, alt |-> TRUE, mouse |-> TRUE, cursor |-> TRUE]

\* the terminal as the process finds it
TermOff == [raw |-> FALSE, alt |-> FALSE, mouse |-> FALSE, cursor |-> TRUE]

\* faulty variant: DisableMouseCapture is forgotten
TeardownKeepMouse(t) == [raw |-> FALSE, alt |-> FALSE, mouse |-> t.mouse, cursor |-> TRUE]

Teardown(t) == [raw |-> FALSE, alt |-> FALSE, mouse |-> FALSE, cursor |-> TRUE]

\* the teardown cut short by the ? of its first failing step: disable_raw_mode,
\* the execute! of the two commands (before or after the first is written),
\* show_cursor
TeardownFailures(t) ==
    { t,
      [t EXCEPT !.raw = FALSE],
      [t EXCEPT !.raw = FALSE, !.alt = FALSE],
      [t EXCEPT !.raw = FALSE, !.alt = FALSE, !.mouse = FALSE] }

\* the terminal states a run of the teardown can end in
TeardownRuns(t) ==
    IF env.io_ok THEN {Teardown(t)} ELSE {Teardown(t)} \cup TeardownFailures(t)

(***************************************************************************)
(* The reference view model of the ordering property: the reducer applied  *)
(* to each line at the moment the reader reads it, up to a destroy.        *)
(***************************************************************************)
RefStep(r, line) ==
    IF r.dead THEN r
    ELSE IF IsDestroy(line) THEN [r EXCEPT !.dead = TRUE]
    ELSE [r EXCEPT !.vm = ApplyLine(@, line)]

(***************************************************************************)
(* The channel.                                                            *)
(***************************************************************************)
\* tx.send(line); after main has returned the receiver is gone and the
\* send fails, which let _ = ignores
Send(q, line) == IF pc = "done" THEN q ELSE Append(q, line)

\* faulty variant: try_recv hands out the newest line
TryRecvNewest(q) == [msg |-> q[Len(q)], rest |-> SubSeq(q, 1, Len(q) - 1)]

\* rx.try_recv(): the oldest line
TryRecv(q) == [msg |-> Head(q), rest |-> Tail(q)]

\* println!("{}", json!({"type": "input", "content": input}))
InputLine(input) == J([type |-> "input", content |-> input])

(***************************************************************************)
(* The status shown in the header for a stream_state (match in ui).        *)
(***************************************************************************)
StatusText(s) ==
    CASE s \in {"request_sent", "thinking"} -> "Thinking"
      [] s = "awaiting_first_token" -> "Waiting"
      [] s = "streaming" -> "Streaming"
      [] s = "tool_executing" -> "Tools"
      [] s = "waiting" -> "Gate"
      [] s = "error" -> "Error"
      [] OTHER -> "Ready"

(***************************************************************************)
(* The tool named on the "running:" line of the streaming message (ui): it *)
(* is drawn only inside the block of a non-empty current_stream.           *)
(***************************************************************************)
RunningIndicator(st) == IF st.current_stream # <<>> THEN st.current_tool ELSE None

(***************************************************************************)
(* The environment main reads at startup: DAX_TUI_ALLOW_PIPE == "1" and    *)
(* atty::is of stdin and of stdout.                                        *)
(* io_ok: the operations on the terminal (tcsetattr, writes, draw, poll,   *)
(* read) all succeed; when FALSE any of them may return an error.          *)
(***************************************************************************)
Envs ==
    [allow_pipe : BOOLEAN, stdin_tty : BOOLEAN, stdout_tty : BOOLEAN, io_ok : BOOLEAN]

\* a driver pipes the control lines into stdin; stdout is a sound terminal
PipedEnv ==
    [allow_pipe |-> FALSE, stdin_tty |-> FALSE, stdout_tty |-> TRUE, io_ok |-> TRUE]

(***************************************************************************)
(* History of the frame on screen, kept by the specifications that watch   *)
(* it: "current" when the last draw showed the present view model,         *)
(* "behind" when the view model changed since.                             *)
(***************************************************************************)
FrameAfter(st1, st2) ==
    IF frame = "unwatched" \/ st1 = st2 THEN frame ELSE "behind"

(***************************************************************************)
(* History of one line of the channel, kept by the specification that      *)
(* follows a line: its place in the channel, 0 when no line is followed or *)
(* the line has been taken.                                                *)
(***************************************************************************)
TrackAfter(q, rest) ==
    IF track = 0 THEN 0
    ELSE IF rest = Tail(q) THEN track - 1
    ELSE IF track = Len(q) THEN 0 ELSE track

(***************************************************************************)
(* The state when the loop is entered.                                     *)
(***************************************************************************)
LoopEntry ==
    /\ state = InitialAppState
    /\ rx = <<>>
    /\ msg = <<>>
    /\ pc = "draw"
    /\ exitBy = "none"
    /\ reader = "reading"
    /\ nread = 0
    /\ stdout = <<>>
    /\ term = TermSetUp
    /\ ref = [vm |-> InitialAppState, dead |-> FALSE]
    /\ keyed = FALSE
    /\ env = PipedEnv
    /\ stderr = <<>>
    /\ buffer = <<>>
    /\ track = 0

Init == LoopEntry /\ frame = "unwatched"

\* the same state with the frame watched: nothing is on screen yet
InitTick == LoopEntry /\ frame = "behind"

(***************************************************************************)
(* Startup: the TTY check, enable_raw_mode, the execute! that enters the   *)
(* alternate screen and enables mouse capture, Terminal::new; then the     *)
(* view model, the channel and the reader thread are created.              *)
(***************************************************************************)
Boot ==
    /\ state = InitialAppState
    /\ rx = <<>>
    /\ msg = <<>>
    /\ pc = "start"
    /\ exitBy = "none"
    /\ reader = "unborn"
    /\ nread = 0
    /\ stdout = <<>>
    /\ term = TermOff
    /\ ref = [vm |-> InitialAppState, dead |-> FALSE]
    /\ keyed = FALSE
    /\ env \in Envs
    /\ stderr = <<>>
    /\ buffer = <<>>
    /\ frame = "unwatched"
    /\ track = 0

\* what a startup step leaves alone
BootFrame ==
    UNCHANGED <<state, rx, msg, nread, stdout, ref, keyed, env, buffer, frame, track>>

\* faulty variant: the check refuses as soon as one of the two is no terminal
TtyCheckEither ==
    /\ pc = "start"
    /\ IF ~env.allow_pipe /\ (~env.stdin_tty \/ ~env.stdout_tty)
       THEN /\ stderr' = Append(stderr, "TUI requires a real terminal")
            /\ pc' = "done"
            /\ exitBy' = "tty"
       ELSE /\ pc' = "raw"
            /\ UNCHANGED <<stderr, exitBy>>
    /\ UNCHANGED <<term, reader>>
    /\ BootFrame

\* if !allow_pipe && !atty::is(Stdin) && !atty::is(Stdout) { eprintln!; exit(1) }
TtyCheck ==
    /\ pc = "start"
    /\ IF ~env.allow_pipe /\ ~env.stdin_tty /\ ~env.stdout_tty
       THEN /\ stderr' = Append(stderr, "TUI requires a real terminal")
            /\ pc' = "done"
            /\ exitBy' = "tty"
       ELSE /\ pc' = "raw"
            /\ UNCHANGED <<stderr, exitBy>>
    /\ UNCHANGED <<term, reader>>
    /\ BootFrame

EnableRaw ==
    /\ pc = "raw"
    /\ term' = [term EXCEPT !.raw = TRUE]
    /\ pc' = "screen"
    /\ UNCHANGED <<stderr, exitBy, reader>>
    /\ BootFrame

\* enable_raw_mode()? returns the error
EnableRawFails ==
    /\ pc = "raw"
    /\ ~env.io_ok
    /\ pc' = "done"
    /\ exitBy' = "raw"
    /\ UNCHANGED <<term, stderr, reader>>
    /\ BootFrame

EnterScreen ==
    /\ pc = "screen"
    /\ term' = [term EXCEPT !.alt = TRUE, !.mouse = TRUE]
    /\ pc' = "terminal"
    /\ UNCHANGED <<stderr, exitBy, reader>>
    /\ BootFrame

\* execute!(stdout, EnterAlternateScreen, EnableMouseCapture)? returns the
\* error, before or after the first command is written
EnterScreenFails ==
    /\ pc = "screen"
    /\ ~env.io_ok
    /\ term' \in {term, [term EXCEPT !.alt = TRUE]}
    /\ pc' = "done"
    /\ exitBy' = "screen"
    /\ UNCHANGED <<stderr, reader>>
    /\ BootFrame

\* Terminal::new(backend)?, AppState::default(), mpsc::channel(), thread::spawn
NewTerminal ==
    /\ pc = "terminal"
    /\ pc' = "draw"
    /\ reader' = "reading"
    /\ UNCHANGED <<term, stderr, exitBy>>
    /\ BootFrame

NewTerminalFails ==
    /\ pc = "terminal"
    /\ ~env.io_ok
    /\ pc' = "done"
    /\ exitBy' = "terminal"
    /\ UNCHANGED <<term, stderr, reader>>
    /\ BootFrame

(***************************************************************************)
(* The reader thread.                                                      *)
(***************************************************************************)
ReaderRead(lines, max) ==
    /\ reader = "reading"
    /\ nread < max
    /\ \E raw \in lines :
         LET trimmed == Trim(raw) IN
         IF trimmed # <<>>
         THEN /\ rx' = Send(rx, trimmed)
              /\ ref' = IF pc = "done" THEN ref ELSE RefStep(ref, trimmed)
         ELSE UNCHANGED <<rx, ref>>
    /\ nread' = nread + 1
    /\ UNCHANGED <<state, msg, pc, exitBy, reader, stdout, term, keyed>>
    /\ UNCHANGED <<env, stderr, buffer, frame, track>>

\* the reader on a stream that does not end: the lines are not counted, and
\* the channel, which has no capacity, is cut at cap lines
ReaderStream(lines, cap) ==
    /\ reader = "reading"
    /\ pc # "done"
    /\ Len(rx) < cap
    /\ \E raw \in lines :
         LET trimmed == Trim(raw) IN
         IF trimmed # <<>>
         THEN /\ rx' = Send(rx, trimmed)
              /\ ref' = RefStep(ref, trimmed)
              /\ track' \in IF track = 0 THEN {0, Len(rx')} ELSE {track}
         ELSE UNCHANGED <<rx, ref, track>>
    /\ UNCHANGED <<state, msg, pc, exitBy, reader, nread, stdout, term, keyed>>
    /\ UNCHANGED <<env, stderr, buffer, frame>>

\* the same iteration in its two steps: read_line fills the buffer ...
ReaderFill(lines, max) ==
    /\ reader = "reading"
    /\ nread < max
    /\ \E raw \in lines : buffer' = raw
    /\ reader' = "sending"
    /\ nread' = nread + 1
    /\ UNCHANGED <<state, rx, msg, pc, exitBy, stdout, term, ref, keyed>>
    /\ UNCHANGED <<env, stderr, frame, track>>

\* ... and the trimmed buffer is sent if it is not empty; the buffer is dropped
ReaderSend ==
    /\ reader = "sending"
    /\ LET trimmed == Trim(buffer) IN
         IF trimmed # <<>>
         THEN /\ rx' = Send(rx, trimmed)
              /\ ref' = IF pc = "done" THEN ref ELSE RefStep(ref, trimmed)
         ELSE UNCHANGED <<rx, ref>>
    /\ buffer' = <<>>
    /\ reader' = "reading"
    /\ UNCHANGED <<state, msg, pc, exitBy, nread, stdout, term, keyed>>
    /\ UNCHANGED <<env, stderr, frame, track>>

\* read_line returns Ok(0) or Err(_)
ReaderStop ==
    /\ reader = "reading"
    /\ reader' = "stopped"
    /\ UNCHANGED <<state, rx, msg, pc, exitBy, nread, stdout, term, ref, keyed>>
    /\ UNCHANGED <<env, stderr, buffer, frame, track>>

(***************************************************************************)
(* The main loop: draw, drain the channel, poll for one key.               *)
(***************************************************************************)
Draw ==
    /\ pc = "draw"
    /\ pc' = "drain"
    /\ term' = [term EXCEPT !.cursor = FALSE]
    /\ frame' = IF frame = "unwatched" THEN frame ELSE "current"
    /\ UNCHANGED <<state, rx, msg, exitBy, reader, nread, stdout, ref, keyed>>
    /\ UNCHANGED <<env, stderr, buffer, track>>

\* terminal.draw(..)? returns the error
DrawFails ==
    /\ pc = "draw"
    /\ ~env.io_ok
    /\ pc' = "done"
    /\ exitBy' = "draw"
    /\ UNCHANGED <<state, rx, msg, reader, nread, stdout, term, ref, keyed>>
    /\ UNCHANGED <<env, stderr, buffer, frame, track>>

Recv ==
    /\ pc = "drain"
    /\ rx # <<>>
    /\ LET r == TryRecv(rx) IN
         /\ rx' = r.rest
         /\ msg' = r.msg
         /\ IF IsDestroy(r.msg)
            THEN /\ term' \in TeardownRuns(term)
                 /\ pc' = "done"
                 /\ exitBy' = "destroy"
                 /\ UNCHANGED state
            ELSE /\ state' = ApplyLine(state, r.msg)
                 /\ UNCHANGED <<pc, exitBy, term>>
    /\ frame' = FrameAfter(state, state')
    /\ track' = TrackAfter(rx, rx')
    /\ UNCHANGED <<reader, nread, stdout, ref, keyed>>
    /\ UNCHANGED <<env, stderr, buffer>>

\* faulty variant: the drain is followed by the draw
DrainEndThenDraw ==
    /\ pc = "drain"
    /\ rx = <<>>
    /\ pc' = "draw"
    /\ msg' = <<>>
    /\ UNCHANGED <<state, rx, exitBy, reader, nread, stdout, term, ref, keyed>>
    /\ UNCHANGED <<env, stderr, buffer, frame, track>>

\* try_recv finds the channel empty; msg goes out of scope
DrainEnd ==
    /\ pc = "drain"
    /\ rx = <<>>
    /\ pc' = "poll"
    /\ msg' = <<>>
    /\ UNCHANGED <<state, rx, exitBy, reader, nread, stdout, term, ref, keyed>>
    /\ UNCHANGED <<env, stderr, buffer, frame, track>>

\* poll times out, or the event is no key press
PollTimeout ==
    /\ pc = "poll"
    /\ pc' = "draw"
    /\ UNCHANGED <<state, rx, msg, exitBy, reader, nread, stdout, term, ref, keyed>>
    /\ UNCHANGED <<env, stderr, buffer, frame, track>>

\* event::poll(..)? or event::read()? returns the error
PollFails ==
    /\ pc = "poll"
    /\ ~env.io_ok
    /\ pc' = "done"
    /\ exitBy' = "poll"
    /\ UNCHANGED <<state, rx, msg, reader, nread, stdout, term, ref, keyed>>
    /\ UNCHANGED <<env, stderr, buffer, frame, track>>

KeyCtrlC ==
    /\ pc = "poll"
    /\ term' \in TeardownRuns(term)
    /\ pc' = "done"
    /\ exitBy' = "ctrlc"
    /\ keyed' = TRUE
    /\ UNCHANGED <<state, rx, msg, reader, nread, stdout, ref>>
    /\ UNCHANGED <<env, stderr, buffer, frame, track>>

\* what a handled key press leaves alone
KeyFrame ==
    /\ pc' = "draw"
    /\ keyed' = TRUE
    /\ frame' = FrameAfter(state, state')
    /\ UNCHANGED <<rx, msg, exitBy, reader, nread, term, ref>>
    /\ UNCHANGED <<env, stderr, buffer, track>>

\* faulty variant: input.clear() is forgotten
OnEnterKeepInput(st) == st

\* faulty variant: the submission is echoed into the transcript
OnEnterEcho(st) ==
    [st EXCEPT !.messages = Append(@, [role |-> "user", content |-> st.input,
                                       tools |-> <<>>]),
               !.input = <<>>]

OnEnter(st) == [st EXCEPT !.input = <<>>]

KeyEnter ==
    /\ pc = "poll"
    /\ IF state.input # <<>>
       THEN /\ Len(stdout) < MaxOut
            /\ stdout' = Append(stdout, InputLine(state.input))
            /\ state' = OnEnter(state)
       ELSE UNCHANGED <<state, stdout>>
    /\ KeyFrame

OnChar(st, c) == [st EXCEPT !.input = Append(@, c)]

\* any Char key but Ctrl+C, which the first arm takes
KeyChar(chars) ==
    /\ pc = "poll"
    /\ Len(state.input) < MaxInput
    /\ \E k \in chars :
         /\ ~(k.ch = "c" /\ k.ctrl)
         /\ state' = OnChar(state, k.ch)
    /\ UNCHANGED stdout
    /\ KeyFrame

OnBackspace(st) ==
    [st EXCEPT !.input = IF @ = <<>> THEN <<>> ELSE SubSeq(@, 1, Len(@) - 1)]

KeyBackspace ==
    /\ pc = "poll"
    /\ state' = OnBackspace(state)
    /\ UNCHANGED stdout
    /\ KeyFrame

OnUp(st) == IF st.chat_scroll > 0 THEN [st EXCEPT !.chat_scroll = @ - 1] ELSE st

KeyUp ==
    /\ pc = "poll"
    /\ state' = OnUp(state)
    /\ UNCHANGED stdout
    /\ KeyFrame

OnDown(st) ==
    IF st.chat_scroll < SatSub(Len(st.messages), 1)
    THEN [st EXCEPT !.chat_scroll = @ + 1] ELSE st

KeyDown ==
    /\ pc = "poll"
    /\ state' = OnDown(state)
    /\ UNCHANGED stdout
    /\ KeyFrame

\* faulty variant: a plain subtraction instead of saturating_sub
OnPageUpPlainSub(st) == [st EXCEPT !.chat_scroll = @ - PageStep]

OnPageUp(st) == [st EXCEPT !.chat_scroll = SatSub(@, PageStep)]

KeyPageUp ==
    /\ pc = "poll"
    /\ state' = OnPageUp(state)
    /\ UNCHANGED stdout
    /\ KeyFrame

OnPageDown(st) ==
    [st EXCEPT !.chat_scroll = Min(@ + PageStep, SatSub(Len(st.messages), 1))]

KeyPageDown ==
    /\ pc = "poll"
    /\ state' = OnPageDown(state)
    /\ UNCHANGED stdout
    /\ KeyFrame

OnHome(st) == [st EXCEPT !.chat_scroll = 0]

KeyHome ==
    /\ pc = "poll"
    /\ state' = OnHome(state)
    /\ UNCHANGED stdout
    /\ KeyFrame

OnEnd(st) == [st EXCEPT !.chat_scroll = SatSub(Len(st.messages), 1)]

KeyEnd ==
    /\ pc = "poll"
    /\ state' = OnEnd(state)
    /\ UNCHANGED stdout
    /\ KeyFrame

\* the _ => {} arm
KeyOther ==
    /\ pc = "poll"
    /\ UNCHANGED <<state, stdout>>
    /\ KeyFrame

(***************************************************************************)
(* The lines on standard input.                                            *)
(***************************************************************************)
Dispatch(ty, data) ==
    <<J([type |-> "dispatch", event |-> [type |-> ty, data |-> data]])>>

TextDeltaLine == Dispatch("text_delta", [text |-> <<"a">>])
ToolCallLine(name, id) == Dispatch("tool_call", [name |-> name, id |-> id])
ToolResultLine(id, success, output, elapsed) ==
    Dispatch("tool_result",
             [tool_id |-> id, success |-> success, output |-> output,
              elapsed_ms |-> elapsed])
CompleteLine == <<J([type |-> "dispatch", event |-> [type |-> "complete"]])>>
StateLine == Dispatch("state", [state |-> "streaming"])
MetaLine == Dispatch("meta", [provider |-> "p", model |-> "m"])
ErrorLine == Dispatch("error", [message |-> "boom"])
GateLine == Dispatch("gate", [id |-> "g", blocked |-> TRUE])
AddUserLine == <<J([type |-> "addUserMessage", content |-> <<"h", "i">>])>>
SetContextLine ==
    <<J([type |-> "setContext", files |-> <<"f">>, scope |-> <<"s">>])>>
UpdateStateLine == <<J([type |-> "updateState", state |-> "tool_executing"])>>
DestroyLine == <<J([type |-> "destroy"])>>

\* lines the decoder rejects
NotJsonLine == <<Garbage>>
UnknownTypeLine == <<J([type |-> "ping"])>>
UnknownEventLine == Dispatch("progress", [text |-> <<"a">>])
MissingFieldLine == <<J([type |-> "addUserMessage"])>>
TwoObjectsLine == AddUserLine \o <<WS>> \o AddUserLine

BadLines == {NotJsonLine, UnknownTypeLine, UnknownEventLine, MissingFieldLine,
             TwoObjectsLine}

\* lines with surrounding whitespace, and lines of whitespace only
Padded(line) == <<WS>> \o line \o <<WS>>
BlankLines == {<<>>, <<WS>>}

StdinLines ==
    { TextDeltaLine, ToolCallLine("x", "1"), ToolResultLine("1", TRUE, "ok", 42),
      CompleteLine, StateLine, MetaLine, ErrorLine, GateLine, AddUserLine,
      SetContextLine, UpdateStateLine, DestroyLine, Padded(TextDeltaLine) }
    \cup BadLines \cup BlankLines

Chars ==
    {[ch |-> "t", ctrl |-> FALSE], [ch |-> "t", ctrl |-> TRUE], [ch |-> "c", ctrl |-> TRUE]}

(***************************************************************************)
(* The program: the reader thread beside the main loop.                    *)
(***************************************************************************)
MainLoop ==
    \/ Draw
    \/ Recv
    \/ DrainEnd
    \/ PollTimeout

Keys ==
    \/ KeyCtrlC
    \/ KeyEnter
    \/ KeyChar(Chars)
    \/ KeyBackspace
    \/ KeyUp
    \/ KeyDown
    \/ KeyPageUp
    \/ KeyPageDown
    \/ KeyHome
    \/ KeyEnd
    \/ KeyOther

Next ==
    \/ ReaderRead(StdinLines, MaxLines)
    \/ ReaderStop
    \/ MainLoop
    \/ Keys

Spec == Init /\ [][Next]_vars

(***************************************************************************)
(* The program on a stream of tool events: calls that share an id, calls   *)
(* without an id, results that match, miss or carry no fields.             *)
(***************************************************************************)
ToolLines ==
    { ToolCallLine("x", "1"), ToolCallLine("y", "1"),
      Dispatch("tool_call", [name |-> "z"]),
      ToolResultLine("1", TRUE, "ok", 42),
      Dispatch("tool_result", [tool_id |-> "1"]),
      ToolResultLine("2", TRUE, "ok", 42),
      Dispatch("tool_result", [success |-> TRUE]),
      TextDeltaLine, CompleteLine, AddUserLine }

ScrollKeys ==
    \/ KeyUp
    \/ KeyDown
    \/ KeyPageUp
    \/ KeyPageDown
    \/ KeyHome
    \/ KeyEnd

NextTools ==
    \/ ReaderRead(ToolLines, ToolMaxLines)
    \/ ReaderStop
    \/ MainLoop
    \/ ScrollKeys
    \/ KeyCtrlC
    \/ KeyOther

SpecTools == Init /\ [][NextTools]_vars

(***************************************************************************)
(* The program on a long conversation: user messages, and a turn at the    *)
(* end, so that the transcript outgrows a page of scrolling.               *)
(***************************************************************************)
ScrollLines ==
    IF nread + 2 >= ScrollMaxLines
    THEN {AddUserLine, TextDeltaLine, CompleteLine}
    ELSE {AddUserLine}

NextScroll ==
    \/ ReaderRead(ScrollLines, ScrollMaxLines)
    \/ ReaderStop
    \/ MainLoop
    \/ ScrollKeys
    \/ KeyCtrlC
    \/ KeyOther

SpecScroll == Init /\ [][NextScroll]_vars

(***************************************************************************)
(* The program from the start of main, in every environment: the terminal  *)
(* check, the setup, and the loop on a terminal whose operations may fail. *)
(***************************************************************************)
IoLines == {TextDeltaLine, DestroyLine}

Startup ==
    \/ TtyCheck
    \/ EnableRaw
    \/ EnableRawFails
    \/ EnterScreen
    \/ EnterScreenFails
    \/ NewTerminal
    \/ NewTerminalFails

NextIo ==
    \/ Startup
    \/ ReaderRead(IoLines, IoMaxLines)
    \/ ReaderStop
    \/ MainLoop
    \/ DrawFails
    \/ PollFails
    \/ KeyCtrlC
    \/ KeyOther

SpecIo == Boot /\ [][NextIo]_vars

(***************************************************************************)
(* The program with the reader's iteration in its two steps, on lines with *)
(* and without whitespace around them.                                     *)
(***************************************************************************)
ReaderLines ==
    { TextDeltaLine, Padded(TextDeltaLine), <<WS>> \o AddUserLine,
      DestroyLine \o <<WS, WS>>, <<WS, WS>> } \cup BlankLines

NextReader ==
    \/ ReaderFill(ReaderLines, ReaderMaxLines)
    \/ ReaderSend
    \/ ReaderStop
    \/ MainLoop
    \/ KeyCtrlC
    \/ KeyOther

SpecReader == Init /\ [][NextReader]_vars

(***************************************************************************)
(* The program with the frame on screen watched.                           *)
(***************************************************************************)
TickLines == {TextDeltaLine, CompleteLine, AddUserLine}

NextTick ==
    \/ ReaderRead(TickLines, TickMaxLines)
    \/ ReaderStop
    \/ MainLoop
    \/ KeyUp
    \/ KeyDown
    \/ KeyCtrlC
    \/ KeyOther

SpecTick == InitTick /\ [][NextTick]_vars

(***************************************************************************)
(* The program on a stream that may never end, with the main thread        *)
(* scheduled fairly: whenever the loop can take a step it eventually does. *)
(* The reader and the keyboard are under no such obligation.               *)
(***************************************************************************)
LiveLines == {StateLine, ErrorLine, GateLine, DestroyLine, NotJsonLine, <<WS>>}

NextLive ==
    \/ ReaderStream(LiveLines, MaxQueue)
    \/ ReaderStop
    \/ MainLoop
    \/ KeyCtrlC
    \/ KeyOther

SpecLive == Init /\ [][NextLive]_vars /\ WF_vars(MainLoop)

(***************************************************************************)
(* Vocabulary of the properties.                                           *)
(***************************************************************************)
\* this step takes the oldest line from the channel
Taken == pc = "drain" /\ rx # <<>> /\ rx' = Tail(rx)

HeadMsg == Decode(Head(rx)).msg

\* this step takes a line that decodes to the stream event ev
TakenEvent(ev) ==
    /\ Taken
    /\ Decode(Head(rx)).ok
    /\ HeadMsg.kind = "Dispatch"
    /\ HeadMsg.event.ev = ev

\* the lines the main loop has still to take
Pending == IF pc = "done" THEN <<>> ELSE rx

\* the reducer applied to the lines of q one at a time, up to a destroy
RECURSIVE ApplyAll(_, _)
ApplyAll(st, q) ==
    IF q = <<>> \/ IsDestroy(Head(q)) THEN st
    ELSE ApplyAll(ApplyLine(st, Head(q)), Tail(q))

\* the fields no key handler writes
ReducerView(st) == [f \in (DOMAIN st) \ {"input", "chat_scroll"} |-> st[f]]

LastIndex(st) == SatSub(Len(st.messages), 1)

(***************************************************************************)
(* C1. However the lines are split across drains and ticks, the view model *)
(* with the pending lines applied in order equals the reducer applied to   *)
(* the lines one at a time as the reader read them: so once the channel is *)
(* empty the view model is that fold.  Key presses write input and         *)
(* chat_scroll only; until one is handled every field agrees.  A run ended *)
(* by Ctrl+C consumes no further line and is left aside.                   *)
(***************************************************************************)
C1_Ordering ==
    exitBy \in {"none", "destroy"} =>
        LET v == ApplyAll(state, Pending) IN
        /\ ReducerView(v) = ReducerView(ref.vm)
        /\ ~keyed => v = ref.vm

C1_Witness ==
    /\ pc # "done"
    /\ rx = <<>>
    /\ nread >= 2
    /\ ~keyed
    /\ state.messages = <<[role |-> "assistant", content |-> <<"a">>, tools |-> <<>>]>>
    /\ state = ref.vm

(***************************************************************************)
(* C2. A ToolState that has left status running is not changed by a later  *)
(* tool_result of the same id: while it stays in tools, an entry whose     *)
(* status is not running keeps its status, output and elapsed_ms.          *)
(***************************************************************************)
C2_ResolvedOnce ==
    [][\A i \in 1..Len(state.tools) :
         (state.tools[i].status # "running" /\ i <= Len(state'.tools))
            => state'.tools[i] = state.tools[i]]_vars

(***************************************************************************)
(* C3. A tool_result whose id is that of a running entry of tools, with no *)
(* earlier entry of that id, sets that entry's status to success when      *)
(* success is true and to error otherwise, sets its output and elapsed_ms  *)
(* to the result's, and changes no other entry.                            *)
(***************************************************************************)
C3_ToolResolved ==
    [][TakenEvent("ToolResult") =>
         LET e == HeadMsg.event
             k == UnwrapOr(e.tool_id, "")
         IN \A i \in 1..Len(state.tools) :
              ( /\ state.tools[i].id = k
                /\ state.tools[i].status = "running"
                /\ \A j \in 1..(i - 1) : state.tools[j].id # k )
              => /\ Len(state'.tools) = Len(state.tools)
                 /\ state'.tools[i].status =
                        (IF e.success = Some(TRUE) THEN "success" ELSE "error")
                 /\ state'.tools[i].output = e.output
                 /\ state'.tools[i].elapsed_ms = e.elapsed_ms
                 /\ state'.tools[i].name = state.tools[i].name
                 /\ state'.tools[i].id = k
                 /\ \A j \in 1..Len(state.tools) :
                      j # i => state'.tools[j] = state.tools[j]]_vars

C3_Witness ==
    /\ pc = "drain"
    /\ msg = ToolResultLine("1", TRUE, "ok", 42)
    /\ Len(state.tools) = 2
    /\ state.tools[1] = [name |-> "x", id |-> "1", status |-> "success",
                         output |-> Some("ok"), elapsed_ms |-> Some(42)]
    /\ state.tools[2] = RunningTool("y", "1")

(***************************************************************************)
(* C4. A tool_result whose id is the id of no entry of tools changes       *)
(* nothing of the view model but current_tool, which it clears, and the    *)
(* loop goes on draining.                                                  *)
(***************************************************************************)
C4_CorrelationMiss ==
    [][( /\ TakenEvent("ToolResult")
         /\ \A i \in 1..Len(state.tools) :
              state.tools[i].id # UnwrapOr(HeadMsg.event.tool_id, "") )
       => /\ state' = [state EXCEPT !.current_tool = None]
          /\ pc' = "drain"
          /\ exitBy' = exitBy]_vars

C4_Witness ==
    /\ pc = "drain"
    /\ msg = ToolResultLine("2", TRUE, "ok", 42)
    /\ state.tools = <<RunningTool("x", "1")>>
    /\ state.current_tool = None
    /\ rx # <<>>

(***************************************************************************)
(* C5. complete with a non-empty current_stream or non-empty tools appends *)
(* one assistant message holding the stream text and the tools, empties    *)
(* both, sets stream_state to idle and chat_scroll to the index of the new *)
(* message.                                                                *)
(***************************************************************************)
C5_CompleteFinalizes ==
    [][( /\ TakenEvent("Complete")
         /\ (state.current_stream # <<>> \/ state.tools # <<>>) )
       => /\ state'.messages =
                 Append(state.messages,
                        [role |-> "assistant", content |-> state.current_stream,
                         tools |-> state.tools])
          /\ state'.current_stream = <<>>
          /\ state'.tools = <<>>
          /\ state'.stream_state = "idle"
          /\ state'.chat_scroll = Len(state'.messages) - 1]_vars

C5_Witness ==
    /\ pc = "drain"
    /\ msg = CompleteLine
    /\ state.messages =
          << [role |-> "user", content |-> <<"h", "i">>, tools |-> <<>>],
             [role |-> "assistant", content |-> <<"a">>, tools |-> <<>>] >>
    /\ state.current_stream = <<>>
    /\ state.tools = <<>>
    /\ state.stream_state = "idle"
    /\ state.chat_scroll = 1

(***************************************************************************)
(* C6. complete with an empty current_stream and empty tools changes       *)
(* nothing: no message, chat_scroll and stream_state as they were.         *)
(***************************************************************************)
C6_CompleteNoOp ==
    [][( /\ TakenEvent("Complete")
         /\ state.current_stream = <<>>
         /\ state.tools = <<>> )
       => state' = state /\ pc' = "drain"]_vars

C6_Witness ==
    /\ pc = "drain"
    /\ msg = CompleteLine
    /\ state.messages = <<>>
    /\ state.stream_state = "error"
    /\ nread = 2

(***************************************************************************)
(* C7. The transcript is append-only and its entries are frozen: every     *)
(* step keeps each message of messages where it is and as it is, its tools *)
(* included.                                                               *)
(***************************************************************************)
C7_TranscriptFrozen ==
    [][/\ Len(state'.messages) >= Len(state.messages)
       /\ \A i \in 1..Len(state.messages) :
            state'.messages[i] = state.messages[i]]_vars

C7_Witness ==
    /\ pc = "drain"
    /\ msg = ToolResultLine("1", TRUE, "ok", 42)
    /\ Len(state.messages) = 1
    /\ state.messages[1].tools = <<RunningTool("x", "1")>>
    /\ state.tools = <<>>
    /\ state.current_tool = None

(***************************************************************************)
(* C8. chat_scroll is 0 while messages is empty and an index of messages   *)
(* otherwise; page-up and page-down move it by ten, stopping at the first  *)
(* and the last index.                                                     *)
(***************************************************************************)
ScrollInRange ==
    /\ state.chat_scroll \in Nat
    /\ state.chat_scroll <= LastIndex(state)

C8_ScrollInRange ==
    /\ []ScrollInRange
    /\ [][/\ KeyPageUp =>
               state'.chat_scroll =
                   (IF state.chat_scroll >= 10 THEN state.chat_scroll - 10 ELSE 0)
          /\ KeyPageDown =>
               state'.chat_scroll =
                   (IF state.chat_scroll + 10 <= LastIndex(state)
                    THEN state.chat_scroll + 10 ELSE LastIndex(state))]_vars

C8_Witness ==
    /\ pc = "draw"
    /\ keyed
    /\ Len(state.messages) = 13
    /\ state.chat_scroll = 10

(***************************************************************************)
(* C9. One line {"type":"input","content":<input>} is written per          *)
(* submission: Enter on a non-empty input writes the line with the whole   *)
(* input and empties input; no other step writes to standard output.       *)
(***************************************************************************)
C9_OneLinePerSubmission ==
    [][IF KeyEnter /\ state.input # <<>>
       THEN /\ stdout' = Append(stdout, J([type |-> "input", content |-> state.input]))
            /\ state'.input = <<>>
       ELSE stdout' = stdout]_vars

C9_Witness ==
    /\ stdout = <<J([type |-> "input", content |-> <<"t">>])>>
    /\ state.input = <<>>
    /\ pc = "draw"

(***************************************************************************)
(* C10. A line that does not decode changes no field of the view model,    *)
(* does not end the loop, and leaves the lines queued behind it to be      *)
(* taken in the same drain.                                                *)
(***************************************************************************)
C10_BadLineIgnored ==
    [][(Taken /\ ~Decode(Head(rx)).ok)
       => /\ state' = state
          /\ pc' = "drain"
          /\ exitBy' = exitBy
          /\ term' = term
          /\ stdout' = stdout]_vars

C10_Witness ==
    /\ pc = "drain"
    /\ msg \in BadLines
    /\ rx # <<>>
    /\ Decode(Head(rx)).ok
    /\ state.stream_state = "done"

(***************************************************************************)
(* C11. The step that takes a destroy line and the step that handles       *)
(* Ctrl+C both end the loop with raw mode disabled, the alternate screen   *)
(* left, mouse capture disabled and the cursor shown.  From then on no     *)
(* line is taken from the channel or added to it, the view model does not  *)
(* change, nothing is drawn, no key is handled and nothing is written.     *)
(***************************************************************************)
C11_Terminated ==
    [][ /\ (Taken /\ IsDestroy(Head(rx))) => exitBy' = "destroy"
        /\ (exitBy = "none" /\ exitBy' \in {"destroy", "ctrlc"}) =>
              /\ pc' = "done"
              /\ term' = [raw |-> FALSE, alt |-> FALSE, mouse |-> FALSE, cursor |-> TRUE]
              /\ state' = state
        /\ pc = "done" =>
              /\ pc' = "done"
              /\ UNCHANGED <<state, rx, msg, term, stdout, exitBy, keyed>> ]_vars

\* a destroy ended the loop with a line behind it in the channel
C11_Witness ==
    /\ pc = "done"
    /\ exitBy = "destroy"
    /\ rx # <<>>
    /\ nread = MaxLines

(***************************************************************************)
(* C12. Whenever main has returned after raw mode was enabled (by a        *)
(* destroy, by Ctrl+C, or by an error of the setup, of draw, of poll or    *)
(* read, or of a teardown step), raw mode is disabled and the alternate    *)
(* screen and mouse capture are left.                                      *)
(***************************************************************************)
C12_ModesRestored ==
    (pc = "done" /\ exitBy \notin {"tty", "raw"}) =>
        (~term.raw /\ ~term.alt /\ ~term.mouse)

(***************************************************************************)
(* C13. Without the override the process goes past the terminal check only *)
(* when stdin and stdout are both terminals: if either is not, it prints   *)
(* the hint to stderr and exits before any terminal mode is changed.  With *)
(* the override the startup proceeds whatever the two are.                 *)
(***************************************************************************)
C13_BothTtysRequired ==
    /\ (~env.allow_pipe /\ ~(env.stdin_tty /\ env.stdout_tty) /\ pc # "start") =>
          /\ pc = "done"
          /\ exitBy = "tty"
          /\ stderr # <<>>
          /\ term = TermOff
    /\ (env.allow_pipe /\ pc # "start") => exitBy # "tty"

(***************************************************************************)
(* C13, as the code has it.  Without the override the process goes past    *)
(* the terminal check when at least one of stdin and stdout is a terminal: *)
(* only if neither is does it print the hint to stderr and exit, before    *)
(* any terminal mode is changed.  With the override the startup proceeds   *)
(* whatever the two are.                                                   *)
(***************************************************************************)
C13_SomeTtyRequired ==
    LET refused == ~env.allow_pipe /\ ~env.stdin_tty /\ ~env.stdout_tty IN
    /\ (refused /\ pc # "start") =>
          /\ pc = "done"
          /\ exitBy = "tty"
          /\ stderr # <<>>
          /\ term = TermOff
    /\ (~refused /\ pc # "start") =>
          /\ exitBy # "tty"
          /\ stderr = <<>>
          /\ pc \notin {"raw", "done"} => term.raw

\* stdin is a pipe, stdout a terminal, no override: raw mode is entered
C13_Witness ==
    /\ ~env.allow_pipe
    /\ ~env.stdin_tty
    /\ env.stdout_tty
    /\ term.raw
    /\ pc = "draw"

(***************************************************************************)
(* C14. The step that takes an addUserMessage line appends one message to  *)
(* the transcript, with role user, the content of the line and no tools,   *)
(* keeps the messages before it, leaves current_stream empty and sets      *)
(* stream_state to thinking, whatever the state before.                    *)
(***************************************************************************)
C14_AddUserMessage ==
    [][(Taken /\ Decode(Head(rx)).ok /\ HeadMsg.kind = "AddUserMessage") =>
         LET n == Len(state.messages) IN
         /\ Len(state'.messages) = n + 1
         /\ SubSeq(state'.messages, 1, n) = state.messages
         /\ state'.messages[n + 1].role = "user"
         /\ state'.messages[n + 1].content = HeadMsg.content
         /\ state'.messages[n + 1].tools = <<>>
         /\ state'.current_stream = <<>>
         /\ state'.stream_state = "thinking"]_vars

\* a user message has just been added in the middle of a turn, with a tool
\* running
C14_Witness ==
    /\ pc = "drain"
    /\ msg = AddUserLine
    /\ state.current_tool.some
    /\ state.tools # <<>>
    /\ Len(state.messages) = 1
    /\ state.stream_state = "thinking"

\* every token of s is whitespace
AllWs(s) == \A i \in 1..Len(s) : s[i] = WS

\* t is s without the whitespace at its two ends
IsTrimOf(t, s) ==
    /\ t # <<>>
    /\ Head(t) # WS
    /\ t[Len(t)] # WS
    /\ \E i, j \in 0..Len(s) :
         /\ i + j + Len(t) = Len(s)
         /\ AllWs(SubSeq(s, 1, i))
         /\ t = SubSeq(s, i + 1, Len(s) - j)
         /\ AllWs(SubSeq(s, Len(s) - j + 1, Len(s)))

(***************************************************************************)
(* C15. The reader sends each line it has read with the whitespace at both *)
(* ends removed, at the tail of the channel, and sends nothing for a line  *)
(* that is all whitespace; nothing else adds to the channel.  After end of *)
(* input or a read error it sends no more.  No step of the reader touches  *)
(* the view model, the loop or the terminal.  A send after main has        *)
(* returned leaves the channel as it is and the reader goes on.            *)
(***************************************************************************)
C15_ReaderSends ==
    [][ /\ (reader = "sending" /\ reader' # "sending") =>
              /\ reader' = "reading"
              /\ IF AllWs(buffer) \/ pc = "done"
                 THEN rx' = rx
                 ELSE /\ Len(rx') = Len(rx) + 1
                      /\ SubSeq(rx', 1, Len(rx)) = rx
                      /\ IsTrimOf(rx'[Len(rx')], buffer)
        /\ (reader # reader' \/ nread # nread') =>
              UNCHANGED <<state, pc, exitBy, term, stdout, msg, keyed>>
        /\ Len(rx') > Len(rx) => reader = "sending"
        /\ reader = "stopped" => (reader' = "stopped" /\ Len(rx') <= Len(rx)) ]_vars

\* main has returned with a line left in the channel, and the reader holds
\* a line with whitespace around it that it is about to send
C15_Witness ==
    /\ pc = "done"
    /\ rx = <<TextDeltaLine>>
    /\ reader = "sending"
    /\ buffer = Padded(TextDeltaLine)

C17_RenderAndPollRecur ==
    /\ (pc = "drain") ~> (pc = "poll" \/ pc = "done")
    /\ (pc = "poll") ~> (pc = "draw" \/ pc = "done")
    /\ (pc = "draw") ~> (pc = "drain" \/ pc = "done")

(***************************************************************************)
(* C18. A line in the channel is eventually taken by the loop, unless the  *)
(* loop returns first: no line stays in the channel for ever.              *)
(***************************************************************************)
C18_LineTaken == (track > 0) ~> (track = 0 \/ pc = "done")

\* the line that is followed waits behind another one
C18_Witness ==
    /\ track = 2
    /\ Len(rx) = 2
    /\ pc = "poll"

(***************************************************************************)
(* C19. stream_state starts in a state shown as Ready, as idle is, and     *)
(* changes only when a line is taken, by this table: meta, text_delta,     *)
(* tool_call, tool_result and setContext leave it; state(s) and            *)
(* updateState(s) set it to s; error sets error; gate sets waiting;        *)
(* addUserMessage sets thinking; complete sets idle when there is text or  *)
(* a tool to finalize and leaves it otherwise.  A line that does not       *)
(* decode, a destroy and every other step leave it.                        *)
(***************************************************************************)
C19_PhaseTable ==
    /\ StatusText(state.stream_state) = StatusText("idle")
    /\ [][ LET p == state.stream_state
               q == state'.stream_state
               m == HeadMsg
           IN IF ~(Taken /\ Decode(Head(rx)).ok) THEN q = p
              ELSE CASE m.kind = "AddUserMessage" -> q = "thinking"
                     [] m.kind = "UpdateState" -> q = m.state
                     [] m.kind = "SetContext" -> q = p
                     [] m.kind = "Destroy" -> q = p
                     [] m.kind = "Dispatch" ->
                          CASE m.event.ev \in {"Meta", "TextDelta", "ToolCall", "ToolResult"} ->
                                 q = p
                            [] m.event.ev = "State" -> q = m.event.state
                            [] m.event.ev = "Error" -> q = "error"
                            [] m.event.ev = "Gate" -> q = "waiting"
                            [] m.event.ev = "Complete" ->
                                 q = IF state.current_stream # <<>> \/ state.tools # <<>>
                                     THEN "idle" ELSE p ]_vars

\* a gate has put the phase to waiting and a meta line has left it there
C19_Witness ==
    /\ pc = "drain"
    /\ msg = MetaLine
    /\ state.stream_state = "waiting"
    /\ state.provider.some

(***************************************************************************)
(* C20. The reducer and the key handler write different fields, but for    *)
(* chat_scroll: no step of the drain changes input, and no step of the     *)
(* poll (Enter included) changes messages, current_stream, stream_state,   *)
(* current_tool, tools, context_files, context_scope, provider or model;   *)
(* a submission appends no message.                                        *)
(***************************************************************************)
C20_DisjointWrites ==
    [][ /\ pc = "drain" => state'.input = state.input
        /\ pc = "poll" =>
              \A f \in {"messages", "current_stream", "stream_state", "current_tool",
                         "tools", "context_files", "context_scope", "provider", "model"} :
                  state'[f] = state[f] ]_vars

\* a line was submitted, more was typed, and an addUserMessage has just been
\* applied: the transcript holds that one message and input is as typed
C20_Witness ==
    /\ pc = "drain"
    /\ msg = AddUserLine
    /\ stdout # <<>>
    /\ state.input = <<"t">>
    /\ Len(state.messages) = 1

(***************************************************************************)
(* C21. The step that takes an addUserMessage line leaves tools,           *)
(* current_tool and chat_scroll as they were.  The entries of tools keep   *)
(* their place, name and id through every step but a finalizing complete,  *)
(* and that complete puts all of them into the assistant message it        *)
(* appends; so the tools recorded before a user message are in the next    *)
(* finalized assistant message.                                            *)
(***************************************************************************)
C21_AddUserKeepsTools ==
    [][ /\ (Taken /\ Decode(Head(rx)).ok /\ HeadMsg.kind = "AddUserMessage") =>
              /\ state'.tools = state.tools
              /\ state'.current_tool = state.current_tool
              /\ state'.chat_scroll = state.chat_scroll
        /\ IF TakenEvent("Complete") /\ state.tools # <<>>
           THEN state'.messages[Len(state'.messages)].tools = state.tools
           ELSE /\ Len(state'.tools) >= Len(state.tools)
                /\ \A i \in 1..Len(state.tools) :
                     /\ state'.tools[i].id = state.tools[i].id
                     /\ state'.tools[i].name = state.tools[i].name ]_vars

\* a second user message has just been added with a tool recorded before
\* it: the view still shows the first message
C21_Witness ==
    /\ pc = "drain"
    /\ msg = AddUserLine
    /\ Len(state.messages) = 2
    /\ state.chat_scroll = 0
    /\ state.tools # <<>>
    /\ state.current_tool.some

(***************************************************************************)
(* C22. current_tool changes only when a tool_call or a tool_result is     *)
(* taken: complete, addUserMessage, text_delta and every other step leave  *)
(* it.  So after a turn finalized with its tool still running, the         *)
(* "running:" line of a later turn's stream names the tool of the finished *)
(* turn.                                                                   *)
(***************************************************************************)
C22_CompleteKeepsCurrentTool ==
    [][ (~TakenEvent("ToolCall") /\ ~TakenEvent("ToolResult")) =>
            state'.current_tool = state.current_tool ]_vars

\* the turn with tool x is finalized, and the stream of the next turn shows
\* x as running
C22_Witness ==
    /\ state.tools = <<>>
    /\ Len(state.messages) = 1
    /\ state.messages[1].role = "assistant"
    /\ state.messages[1].tools # <<>>
    /\ state.messages[1].tools[1].name = "x"
    /\ state.messages[1].tools[1].status = "running"
    /\ RunningIndicator(state) = Some("x")

====
